---- MODULE Spec2Model ----
(***************************************************************************)
(* Model of grub-core/kern/disk.c (GRUB 2.00+20130519): the generic disk   *)
(* layer with its direct-mapped sector cache, the partition walker, the    *)
(* read engine, the write engine and the open/close path.                  *)
(*                                                                         *)
(* Byte buffers are sequences (1-based); a C offset o is element o + 1.    *)
(* Every C function is an operator over a machine record                   *)
(*   m = [cache, dev, errno, nmalloc, nread, nwrite, trace, hooks, oom,    *)
(*        seen]                                                            *)
(* that threads the globals the function touches (the cache table,         *)
(* grub_errno), the device contents, and a log of the calls made into the  *)
(* driver and into the read hook; seen keeps, for each of these calls, the *)
(* cache table as the callee finds it.  A plan p tells which calls of the  *)
(* environment (grub_malloc, driver read, driver write) fail.              *)
(***************************************************************************)
EXTENDS Integers, Sequences, FiniteSets, TLC

(***************************************************************************)
(* Geometry.  The header values (9, 6, 1021) are scaled down so that the   *)
(* device can be modelled byte by byte.                                    *)
(***************************************************************************)
GRUB_DISK_SECTOR_BITS == 1
GRUB_DISK_CACHE_BITS == 1
GRUB_DISK_CACHE_NUM == 2
GRUB_CACHE_TIMEOUT == 2

Pow2(n) == 2 ^ n

GRUB_DISK_SECTOR_SIZE == Pow2(GRUB_DISK_SECTOR_BITS)
GRUB_DISK_CACHE_SIZE == Pow2(GRUB_DISK_CACHE_BITS)
\* bytes of one cache cluster: GRUB_DISK_SECTOR_SIZE << GRUB_DISK_CACHE_BITS
ClusterBytes == GRUB_DISK_SECTOR_SIZE * GRUB_DISK_CACHE_SIZE

\* width of grub_disk_addr_t / grub_off_t / grub_size_t
WordBits == 12
Wrap(x) == x % Pow2(WordBits)
GRUB_DISK_SIZE_UNKNOWN == Pow2(WordBits) - 1

\* the device: DiskClusters clusters of real storage
DiskClusters == 3
DiskSectors == DiskClusters * GRUB_DISK_CACHE_SIZE
DiskBytes == DiskSectors * GRUB_DISK_SECTOR_SIZE

GRUB_ERR_NONE == "GRUB_ERR_NONE"
GRUB_ERR_OUT_OF_MEMORY == "GRUB_ERR_OUT_OF_MEMORY"
GRUB_ERR_OUT_OF_RANGE == "GRUB_ERR_OUT_OF_RANGE"
GRUB_ERR_UNKNOWN_DEVICE == "GRUB_ERR_UNKNOWN_DEVICE"
GRUB_ERR_BAD_DEVICE == "GRUB_ERR_BAD_DEVICE"
GRUB_ERR_READ_ERROR == "GRUB_ERR_READ_ERROR"
GRUB_ERR_WRITE_ERROR == "GRUB_ERR_WRITE_ERROR"
GRUB_ERR_NOT_IMPLEMENTED_YET == "GRUB_ERR_NOT_IMPLEMENTED_YET"
\* the value -1 that grub_disk_write returns as a grub_err_t
MinusOne == "-1"

Min(a, b) == IF a < b THEN a ELSE b

\* a null char * (cache->data == 0)
NoData == <<>>

\* s with the elements at C offsets [off, off + Len(piece)) replaced
Patch(s, off, piece) ==
  [i \in 1..Len(s) |->
     IF i > off /\ i <= off + Len(piece) THEN piece[i - off] ELSE s[i]]

\* the n elements of s at C offsets [off, off + n)
Slice(s, off, n) == SubSeq(s, off + 1, off + n)

(***************************************************************************)
(* The environment: grub_malloc and the driver's read and write.           *)
(***************************************************************************)
NoFail == [mm |-> {}, rd |-> {}, wr |-> 0, wrdone |-> 0]

\* grub_malloc called from site: fails (grub_errno := OUT_OF_MEMORY) on the
\* calls p.mm names; m.oom logs the sites of the failed calls
grub_malloc(m, p, site) ==
  LET k == m.nmalloc + 1
      ok == k \notin p.mm
  IN [m |-> [m EXCEPT !.nmalloc = k,
                      !.errno = IF ok THEN @ ELSE GRUB_ERR_OUT_OF_MEMORY,
                      !.oom = IF ok THEN @ ELSE Append(@, site)],
      ok |-> ok]

NativeBytes(disk) == Pow2(disk.log_sector_size)

\* (disk->dev->read) (disk, nsector, count, buf): count native sectors
\* starting at native sector nsector.  Fails on the calls p.rd names and
\* when the request leaves the medium.
DevRead(m, p, disk, nsector, count) ==
  LET k == m.nread + 1
      nb == NativeBytes(disk)
      ok == k \notin p.rd /\ (nsector + count) * nb <= DiskBytes
      m1 == [m EXCEPT !.nread = k,
                      !.trace = Append(@, [op |-> "read", sector |-> nsector,
                                           n |-> count, ok |-> ok]),
                      !.seen = Append(@, [op |-> "read", sector |-> nsector,
                                          n |-> count, cache |-> m.cache])]
  IN IF ok
     THEN [m |-> m1, err |-> GRUB_ERR_NONE,
           buf |-> Slice(m.dev, nsector * nb, count * nb)]
     ELSE [m |-> [m1 EXCEPT !.errno = GRUB_ERR_READ_ERROR],
           err |-> GRUB_ERR_READ_ERROR, buf |-> <<>>]

\* (disk->dev->write) (disk, nsector, count, buf).  The call p.wr names
\* fails after the driver has transferred the first p.wrdone sectors, fewer
\* than it was asked for.
DevWrite(m, p, disk, nsector, count, buf) ==
  LET k == m.nwrite + 1
      nb == NativeBytes(disk)
      inside == (nsector + count) * nb <= DiskBytes
      ok == k # p.wr /\ inside
      done == IF ok THEN count
              ELSE IF inside THEN Min(p.wrdone, count - 1) ELSE 0
      m1 == [m EXCEPT !.nwrite = k,
                      !.dev = Patch(@, nsector * nb, Slice(buf, 0, done * nb)),
                      !.trace = Append(@, [op |-> "write", sector |-> nsector,
                                           n |-> count, ok |-> ok]),
                      !.seen = Append(@, [op |-> "write", sector |-> nsector,
                                          n |-> count, cache |-> m.cache])]
  IN IF ok
     THEN [m |-> m1, err |-> GRUB_ERR_NONE]
     ELSE [m |-> [m1 EXCEPT !.errno = GRUB_ERR_WRITE_ERROR],
           err |-> GRUB_ERR_WRITE_ERROR]

\* (disk->read_hook) (s, o, cl, disk->read_hook_data)
CallHook(m, s, o, cl) ==
  [m EXCEPT !.hooks = Append(@, [sector |-> s, offset |-> o, length |-> cl]),
            !.seen = Append(@, [op |-> "hook", sector |-> s, n |-> 1,
                                cache |-> m.cache])]

(***************************************************************************)
(* The sector cache.                                                       *)
(***************************************************************************)
EmptyEntry == [dev_id |-> 0, disk_id |-> 0, sector |-> 0, data |-> NoData,
               lock |-> 0]

\* an index that puts every key in the first slot
IndexZero(dev_id, disk_id, sector) == 0

grub_disk_cache_get_index(dev_id, disk_id, sector) ==
  (dev_id * 524287 + disk_id * 2606459
     + (sector \div Pow2(GRUB_DISK_CACHE_BITS))) % GRUB_DISK_CACHE_NUM

KeyMatch(e, dev_id, disk_id, sector) ==
  e.dev_id = dev_id /\ e.disk_id = disk_id /\ e.sector = sector

\* an invalidate that leaves the table as it was
InvalidateNothing(cache, dev_id, disk_id, sector0) == cache

grub_disk_cache_invalidate(cache, dev_id, disk_id, sector0) ==
  LET sector == sector0 - (sector0 % GRUB_DISK_CACHE_SIZE)
      index == grub_disk_cache_get_index(dev_id, disk_id, sector)
  IN IF KeyMatch(cache[index], dev_id, disk_id, sector)
        /\ cache[index].data # NoData
     THEN [cache EXCEPT ![index].data = NoData, ![index].lock = 0]
     ELSE cache

grub_disk_cache_invalidate_all(cache) ==
  [i \in DOMAIN cache |->
     IF cache[i].data # NoData /\ cache[i].lock = 0
     THEN [cache[i] EXCEPT !.data = NoData]
     ELSE cache[i]]

\* returns the table (with the lock taken on a key match) and cache->data
grub_disk_cache_fetch(cache, dev_id, disk_id, sector) ==
  LET index == grub_disk_cache_get_index(dev_id, disk_id, sector)
  IN IF KeyMatch(cache[index], dev_id, disk_id, sector)
     THEN [cache |-> [cache EXCEPT ![index].lock = 1],
           data |-> cache[index].data]
     ELSE [cache |-> cache, data |-> NoData]

\* an unlock that leaves the lock set
UnlockNothing(cache, dev_id, disk_id, sector) == cache

grub_disk_cache_unlock(cache, dev_id, disk_id, sector) ==
  LET index == grub_disk_cache_get_index(dev_id, disk_id, sector)
  IN IF KeyMatch(cache[index], dev_id, disk_id, sector)
     THEN [cache EXCEPT ![index].lock = 0]
     ELSE cache

\* a store that leaves the slot as it was
StoreNothing(m, p, dev_id, disk_id, sector, data) == m

grub_disk_cache_store(m, p, dev_id, disk_id, sector, data) ==
  LET index == grub_disk_cache_get_index(dev_id, disk_id, sector)
      freed == [m EXCEPT !.cache[index].data = NoData,
                         !.cache[index].lock = 0]
      a == grub_malloc(freed, p, "store")
  IN IF ~a.ok
     THEN a.m
     ELSE [a.m EXCEPT !.cache[index].data = data,
                      !.cache[index].dev_id = dev_id,
                      !.cache[index].disk_id = disk_id,
                      !.cache[index].sector = sector]

(***************************************************************************)
(* The partition walker.  A disk handle is                                 *)
(*   [dev_id, id, log_sector_size, total_sectors, partition, read_hook]    *)
(* with partition the chain from the innermost partition outwards, each    *)
(* node [start, len].                                                      *)
(***************************************************************************)
RECURSIVE PartWalk(_, _, _, _)
\* the loop of lines 356-371 from chain node i on
PartWalk(parts, i, sector, need) ==
  IF i > Len(parts)
  THEN [err |-> GRUB_ERR_NONE, sector |-> sector]
  ELSE IF sector >= parts[i].len \/ parts[i].len - sector < need
       THEN [err |-> GRUB_ERR_OUT_OF_RANGE, sector |-> sector]
       ELSE PartWalk(parts, i + 1, Wrap(sector + parts[i].start), need)

\* total_sectors << (log_sector_size - GRUB_DISK_SECTOR_BITS)
TotalLogical(disk) ==
  Wrap(disk.total_sectors * Pow2(disk.log_sector_size - GRUB_DISK_SECTOR_BITS))

grub_disk_adjust_range(m, disk, sector0, offset0, size) ==
  LET sector1 == Wrap(sector0 + offset0 \div GRUB_DISK_SECTOR_SIZE)
      offset == offset0 % GRUB_DISK_SECTOR_SIZE
      need == Wrap(offset + size + GRUB_DISK_SECTOR_SIZE - 1)
                \div GRUB_DISK_SECTOR_SIZE
      w == PartWalk(disk.partition, 1, sector1, need)
      outside == disk.total_sectors # GRUB_DISK_SIZE_UNKNOWN
                 /\ (TotalLogical(disk) <= w.sector
                     \/ need > TotalLogical(disk) - w.sector)
  IN IF w.err # GRUB_ERR_NONE \/ outside
     THEN [m |-> [m EXCEPT !.errno = GRUB_ERR_OUT_OF_RANGE],
           err |-> GRUB_ERR_OUT_OF_RANGE, sector |-> w.sector,
           offset |-> offset]
     ELSE [m |-> m, err |-> GRUB_ERR_NONE, sector |-> w.sector,
           offset |-> offset]

transform_sector(disk, sector) ==
  sector \div Pow2(disk.log_sector_size - GRUB_DISK_SECTOR_BITS)

(***************************************************************************)
(* The read engine.                                                        *)
(***************************************************************************)
\* lines 440-470: read just the native sectors that hold the bytes
ReadSmallFallback(m, p, disk, sector0, offset0, size) ==
  LET ratio == Pow2(disk.log_sector_size - GRUB_DISK_SECTOR_BITS)
      sector == sector0 + offset0 \div GRUB_DISK_SECTOR_SIZE
      offset1 == offset0 % GRUB_DISK_SECTOR_SIZE
      aligned_sector == sector - (sector % ratio)
      offset == offset1 + (sector - aligned_sector) * GRUB_DISK_SECTOR_SIZE
      num == (size + offset + NativeBytes(disk) - 1) \div NativeBytes(disk)
      a == grub_malloc(m, p, "tmp_buf")
      r == DevRead(a.m, p, disk, transform_sector(disk, aligned_sector), num)
  IN IF ~a.ok
     THEN [m |-> a.m, err |-> a.m.errno, buf |-> <<>>]
     ELSE IF r.err # GRUB_ERR_NONE
          THEN [m |-> r.m, err |-> r.m.errno, buf |-> <<>>]
          ELSE [m |-> r.m, err |-> GRUB_ERR_NONE,
                buf |-> Slice(r.buf, offset, size)]

\* lines 417-419: the whole cluster may be read
ClusterInsideDisk(disk, sector) ==
  disk.total_sectors = GRUB_DISK_SIZE_UNKNOWN
  \/ sector + GRUB_DISK_CACHE_SIZE < TotalLogical(disk)

grub_disk_read_small(m, p, disk, sector, offset, size) ==
  LET f == grub_disk_cache_fetch(m.cache, disk.dev_id, disk.id, sector)
      m1 == [m EXCEPT !.cache = f.cache]
      a == grub_malloc(m1, p, "tmp_buf")
      full == ClusterInsideDisk(disk, sector)
      r == DevRead(a.m, p, disk, transform_sector(disk, sector),
                   Pow2(GRUB_DISK_CACHE_BITS + GRUB_DISK_SECTOR_BITS
                        - disk.log_sector_size))
  IN IF f.data # NoData
     THEN [m |-> [m EXCEPT !.cache = grub_disk_cache_unlock(
                                        f.cache, disk.dev_id, disk.id, sector)],
           err |-> GRUB_ERR_NONE, buf |-> Slice(f.data, offset, size)]
     ELSE IF ~a.ok
          THEN [m |-> a.m, err |-> a.m.errno, buf |-> <<>>]
          ELSE IF full /\ r.err = GRUB_ERR_NONE
               THEN [m |-> grub_disk_cache_store(r.m, p, disk.dev_id, disk.id,
                                                 sector, r.buf),
                     err |-> GRUB_ERR_NONE, buf |-> Slice(r.buf, offset, size)]
               ELSE ReadSmallFallback(
                      [(IF full THEN r.m ELSE a.m) EXCEPT !.errno = GRUB_ERR_NONE],
                      p, disk, sector, offset, size)

RECURSIVE Agglomerate(_, _, _, _, _)
\* lines 529-538: probe cluster i, i + 1, ... until the first cached one
Agglomerate(cache, disk, sector, i, limit) ==
  IF i >= limit
  THEN [cache |-> cache, agglomerate |-> i, data |-> NoData]
  ELSE LET f == grub_disk_cache_fetch(cache, disk.dev_id, disk.id,
                                      sector + i * GRUB_DISK_CACHE_SIZE)
       IN IF f.data # NoData
          THEN [cache |-> f.cache, agglomerate |-> i, data |-> f.data]
          ELSE Agglomerate(f.cache, disk, sector, i + 1, limit)

RECURSIVE StoreRun(_, _, _, _, _, _, _)
\* lines 563-568: store clusters i .. agglomerate - 1 of buf
StoreRun(m, p, disk, sector, buf, i, agglomerate) ==
  IF i >= agglomerate
  THEN m
  ELSE StoreRun(grub_disk_cache_store(m, p, disk.dev_id, disk.id,
                                      sector + i * GRUB_DISK_CACHE_SIZE,
                                      Slice(buf, i * ClusterBytes, ClusterBytes)),
                p, disk, sector, buf, i + 1, agglomerate)

RECURSIVE ReadBody(_, _, _, _, _, _)
\* lines 522-582: the loop over full clusters; out is what buf holds so far
ReadBody(m, p, disk, sector, size, out) ==
  IF size < ClusterBytes
  THEN [m |-> m, err |-> GRUB_ERR_NONE, sector |-> sector, size |-> size,
        buf |-> out]
  ELSE
    LET g == Agglomerate(m.cache, disk, sector, 0, size \div ClusterBytes)
        k == g.agglomerate
        hit == g.data # NoData
        m1 == [m EXCEPT !.cache =
                 IF hit
                 THEN grub_disk_cache_unlock(g.cache, disk.dev_id, disk.id,
                                             sector + k * GRUB_DISK_CACHE_SIZE)
                 ELSE g.cache]
        r == DevRead(m1, p, disk, transform_sector(disk, sector),
                     k * Pow2(GRUB_DISK_CACHE_BITS + GRUB_DISK_SECTOR_BITS
                              - disk.log_sector_size))
        m2 == IF k > 0 THEN StoreRun(r.m, p, disk, sector, r.buf, 0, k) ELSE m1
        got == (IF k > 0 THEN r.buf ELSE <<>>) \o (IF hit THEN g.data ELSE <<>>)
        adv == k + (IF hit THEN 1 ELSE 0)
    IN IF k > 0 /\ r.err # GRUB_ERR_NONE
       THEN [m |-> r.m, err |-> r.err, sector |-> sector, size |-> size,
             buf |-> out]
       ELSE ReadBody(m2, p, disk, sector + adv * GRUB_DISK_CACHE_SIZE,
                     size - adv * ClusterBytes, out \o got)

\* one hook call for the whole range
HookOnce(m, s, l, o) ==
  IF l = 0 THEN m ELSE CallHook(m, s, o, l)

RECURSIVE HookLoop(_, _, _, _)
\* lines 600-610
HookLoop(m, s, l, o) ==
  IF l = 0
  THEN m
  ELSE LET cl == Min(GRUB_DISK_SECTOR_SIZE - o, l)
       IN HookLoop(CallHook(m, s, o, cl), s + 1, l - cl, 0)

\* lines 594-613: the hook calls and the final return grub_errno
ReadFinish(m, disk, real_sector, real_offset, real_size, out) ==
  LET mh == IF disk.read_hook
            THEN HookLoop(m, real_sector, real_size, real_offset)
            ELSE m
  IN [m |-> mh, ret |-> mh.errno, buf |-> out]

\* lines 585-591, then the hook
ReadTail(p, disk, b, real_sector, real_offset, real_size) ==
  LET t == grub_disk_read_small(b.m, p, disk, b.sector, 0, b.size)
  IN IF b.err # GRUB_ERR_NONE
     THEN [m |-> b.m, ret |-> b.err, buf |-> b.buf]
     ELSE IF b.size = 0
          THEN ReadFinish(b.m, disk, real_sector, real_offset, real_size, b.buf)
          ELSE IF t.err # GRUB_ERR_NONE
               THEN [m |-> t.m, ret |-> t.err, buf |-> b.buf]
               ELSE ReadFinish(t.m, disk, real_sector, real_offset, real_size,
                               b.buf \o t.buf)

grub_disk_read(m, p, disk, sector0, offset0, size0) ==
  LET adj == grub_disk_adjust_range(m, disk, sector0, offset0, size0)
      sector == adj.sector
      offset == adj.offset
      \* lines 497-519: up to the first cluster boundary
      head == offset # 0 \/ sector % GRUB_DISK_CACHE_SIZE # 0
      start_sector == sector - (sector % GRUB_DISK_CACHE_SIZE)
      pos == (sector - start_sector) * GRUB_DISK_SECTOR_SIZE
      len == Min(ClusterBytes - pos - offset, size0)
      h == grub_disk_read_small(adj.m, p, disk, start_sector, offset + pos, len)
      offset2 == offset + len
      sector2 == sector + offset2 \div GRUB_DISK_SECTOR_SIZE
  IN IF adj.err # GRUB_ERR_NONE
     THEN [m |-> adj.m, ret |-> adj.m.errno, buf |-> <<>>]
     ELSE IF head /\ h.err # GRUB_ERR_NONE
          THEN [m |-> h.m, ret |-> h.err, buf |-> <<>>]
          ELSE ReadTail(p, disk,
                   IF head
                   THEN ReadBody(h.m, p, disk, sector2, size0 - len, h.buf)
                   ELSE ReadBody(adj.m, p, disk, sector, size0, <<>>),
                   sector, offset, size0)

(***************************************************************************)
(* The write engine.                                                       *)
(***************************************************************************)
RECURSIVE InvalidateRun(_, _, _, _)
\* lines 682-686: one invalidate per native sector written
InvalidateRun(cache, disk, sector, n) ==
  IF n = 0
  THEN cache
  ELSE InvalidateRun(
         grub_disk_cache_invalidate(cache, disk.dev_id, disk.id, sector),
         disk,
         sector + Pow2(disk.log_sector_size - GRUB_DISK_SECTOR_BITS),
         n - 1)

\* a patch that lands at the start of the sector
PatchAtStart(tmp_buf, real_offset, buf, size) ==
  Patch(tmp_buf, 0, Slice(buf, 0, Min(Len(tmp_buf) - real_offset, size)))

\* lines 653-657: tmp_buf with len bytes of buf copied to real_offset
PatchSector(tmp_buf, real_offset, buf, size) ==
  Patch(tmp_buf, real_offset,
        Slice(buf, 0, Min(Len(tmp_buf) - real_offset, size)))

\* what a pass of the loop hands on: the machine, whether the loop goes on,
\* the handle's partition chain, and the sector, size and buf to go on with
WritePass(m, ok, partition, sector, size, buf) ==
  [m |-> m, ok |-> ok, partition |-> partition, sector |-> sector,
   size |-> size, buf |-> buf]

\* lines 661-668: w is what the driver write of the patched sector gave
WriteSectorWritten(disk, sector, real_offset, size, buf, w) ==
  LET nb == NativeBytes(disk)
      ratio == Pow2(disk.log_sector_size - GRUB_DISK_SECTOR_BITS)
      len == Min(nb - real_offset, size)
  IN IF w.err # GRUB_ERR_NONE
     THEN WritePass(w.m, FALSE, disk.partition, sector, size, buf)
     ELSE WritePass(w.m, TRUE, disk.partition, sector + ratio, size - len,
                    Slice(buf, len, Len(buf) - len))

\* lines 653-662: patch the sector read, invalidate its cluster, write it
WriteSectorPatched(p, disk, sector, real_offset, size, buf, rd) ==
  WriteSectorWritten(
    disk, sector, real_offset, size, buf,
    DevWrite([rd.m EXCEPT !.cache = grub_disk_cache_invalidate(
                                       @, disk.dev_id, disk.id, sector)],
             p, disk, transform_sector(disk, sector), 1,
             PatchSector(rd.buf, real_offset, buf, size)))

\* line 643: disk->partition = 0
DetachPartition(d) == [d EXCEPT !.partition = <<>>]

\* a return from the inner read that leaves the chain detached
LeaveDetached(d, part) == d

\* lines 648 and 651: disk->partition = part
AttachPartition(d, part) == [d EXCEPT !.partition = part]

\* lines 646-651: rd is what the read of the native sector gave on the
\* detached handle, part the chain saved at line 642
WriteSectorRead(p, detached, part, sector, real_offset, size, buf, rd) ==
  IF rd.ret # GRUB_ERR_NONE
  THEN WritePass(rd.m, FALSE, AttachPartition(detached, part).partition,
                 sector, size, buf)
  ELSE WriteSectorPatched(p, AttachPartition(detached, part), sector,
                          real_offset, size, buf, rd)

\* lines 635-669: read-modify-write of one native sector; the read runs
\* with the partition chain detached
WriteSector(m, p, disk, sector, real_offset, size, buf) ==
  WriteSectorRead(p, DetachPartition(disk), disk.partition, sector,
                  real_offset, size, buf,
                  grub_disk_read(m, p, DetachPartition(disk), sector, 0,
                                 NativeBytes(disk)))

\* lines 680-689: w is what the driver write of the n sectors gave
WriteBulkWritten(disk, sector, size, buf, w) ==
  LET nb == NativeBytes(disk)
      ratio == Pow2(disk.log_sector_size - GRUB_DISK_SECTOR_BITS)
      len == size - (size % nb)
      n == size \div nb
  IN IF w.err # GRUB_ERR_NONE
     THEN WritePass(w.m, FALSE, disk.partition, sector, size, buf)
     ELSE WritePass([w.m EXCEPT !.cache = InvalidateRun(@, disk, sector, n)],
                    TRUE, disk.partition, sector + n * ratio, size - len,
                    Slice(buf, len, Len(buf) - len))

\* lines 670-690: the whole native sectors in one driver write
WriteBulk(m, p, disk, sector, size, buf) ==
  WriteBulkWritten(disk, sector, size, buf,
                   DevWrite(m, p, disk, transform_sector(disk, sector),
                            size \div NativeBytes(disk), buf))

RECURSIVE WriteLoop(_, _, _, _, _, _, _)
RECURSIVE WriteNext(_, _, _)
\* after a pass s: on to the next pass, or to finish on a failure
WriteNext(p, disk, s) ==
  IF ~s.ok
  THEN [m |-> s.m, partition |-> s.partition]
  ELSE WriteLoop(s.m, p, [disk EXCEPT !.partition = s.partition],
                 s.sector, 0, s.size, s.buf)

\* lines 633-693: while (size)
WriteLoop(m, p, disk, sector, real_offset, size, buf) ==
  IF size = 0
  THEN [m |-> m, partition |-> disk.partition]
  ELSE WriteNext(p, disk,
                 IF real_offset # 0 \/ (size < NativeBytes(disk) /\ size # 0)
                 THEN WriteSector(m, p, disk, sector, real_offset, size, buf)
                 ELSE WriteBulk(m, p, disk, sector, size, buf))

\* lines 693-695: w is what the loop left
WriteFinish(w) ==
  [m |-> w.m, ret |-> w.m.errno, partition |-> w.partition]

\* lines 625-631: adj is what grub_disk_adjust_range gave
WriteAdjusted(p, disk, size, buf, adj) ==
  LET ratio == Pow2(disk.log_sector_size - GRUB_DISK_SECTOR_BITS)
      aligned_sector == adj.sector - (adj.sector % ratio)
      real_offset == adj.offset
                     + (adj.sector - aligned_sector) * GRUB_DISK_SECTOR_SIZE
  IN IF adj.err # GRUB_ERR_NONE
     THEN [m |-> adj.m, ret |-> MinusOne, partition |-> disk.partition]
     ELSE WriteFinish(WriteLoop(adj.m, p, disk, aligned_sector, real_offset,
                                size, buf))

grub_disk_write(m, p, disk, sector0, offset0, size, buf) ==
  WriteAdjusted(p, disk, size, buf,
                grub_disk_adjust_range(m, disk, sector0, offset0, size))

(***************************************************************************)
(* Names.  A name is a sequence of characters; reading past its end gives  *)
(* the terminating NUL.                                                    *)
(***************************************************************************)
NUL == "NUL"
CharAt(name, i) == IF i < Len(name) THEN name[i + 1] ELSE NUL

RECURSIVE FindSepFrom(_, _)
\* the loop of lines 211-218 with p at C offset i
FindSepFrom(name, i) ==
  LET c == CharAt(name, i)
  IN IF c = NUL
     THEN -1
     ELSE IF c = "\\" /\ CharAt(name, i + 1) = ","
          THEN FindSepFrom(name, i + 2)
          ELSE IF c = ","
               THEN i
               ELSE FindSepFrom(name, i + 1)

\* the first comma, escaped or not
FirstComma(name) ==
  IF \E i \in 1..Len(name) : name[i] = ","
  THEN (CHOOSE i \in 1..Len(name) :
          name[i] = "," /\ \A j \in 1..(i - 1) : name[j] # ",") - 1
  ELSE -1

\* C offset of the separator, -1 for NULL
find_part_sep(name) == FindSepFrom(name, 0)

(***************************************************************************)
(* The collaborators of open: the drivers and the partition prober.        *)
(***************************************************************************)
Drivers == {1, 2}

\* (dev->open) (raw, disk) of driver d: the error it reports and the fields
\* it fills in.  Driver 1 serves the medium under two names, one of them
\* holding an escaped comma; driver 2 serves it too, fails hard on one name
\* and announces an unsupported sector size, too large or too small, on two
\* others.
DriverOpen(d, raw) ==
  LET ok(l) == [err |-> GRUB_ERR_NONE, dev_id |-> d - 1, id |-> 0,
                log_sector_size |-> l,
                total_sectors |-> DiskBytes \div Pow2(l)]
      no(e) == [err |-> e, dev_id |-> 0, id |-> 0, log_sector_size |-> 0,
                total_sectors |-> 0]
  IN IF d = 1
     THEN IF raw \in {<<"a">>, <<"\\", ",">>, <<"a", "a", "a">>}
          THEN ok(GRUB_DISK_SECTOR_BITS)
          ELSE no(GRUB_ERR_UNKNOWN_DEVICE)
     ELSE IF raw = <<"a">>
          THEN ok(GRUB_DISK_SECTOR_BITS + GRUB_DISK_CACHE_BITS)
          ELSE IF raw = <<"a", "a">>
               THEN no(GRUB_ERR_BAD_DEVICE)
               ELSE IF raw = <<"a", "a", "a">>
                    THEN [ok(GRUB_DISK_SECTOR_BITS) EXCEPT
                            !.log_sector_size =
                               GRUB_DISK_SECTOR_BITS + GRUB_DISK_CACHE_BITS + 1]
                    ELSE IF raw = <<"a", "a", "a", "a">>
                         THEN [ok(GRUB_DISK_SECTOR_BITS) EXCEPT
                                 !.log_sector_size = GRUB_DISK_SECTOR_BITS - 1]
                         ELSE no(GRUB_ERR_UNKNOWN_DEVICE)

\* the partition table of the medium: Outer, and Inner nested in Outer
Outer == [start |-> 1, len |-> DiskSectors - 2]
Inner == [start |-> 1, len |-> GRUB_DISK_CACHE_SIZE]

\* grub_partition_probe (disk, spec): the chain, or <<>> for NULL
grub_partition_probe(spec) ==
  IF spec = <<"a">> THEN <<Outer>>
  ELSE IF spec = <<"a", ",", "a">> THEN <<Inner, Outer>>
  ELSE <<>>

(***************************************************************************)
(* Open and close.  g holds the globals and the log of the calls made:     *)
(*   [m, last_time, opens, probes, closes]                                 *)
(***************************************************************************)
\* a handle: what grub_zalloc returns, with log_sector_size preset (line 235)
ZeroDisk ==
  [name |-> <<>>, dev |-> 0, dev_id |-> 0, id |-> 0,
   log_sector_size |-> GRUB_DISK_SECTOR_BITS, total_sectors |-> 0,
   partition |-> <<>>, read_hook |-> FALSE]

\* no handle
NoDisk == [ZeroDisk EXCEPT !.log_sector_size = 0]

\* a close that leaves the timer alone
CloseKeepTime(g, d, t) ==
  [g EXCEPT !.closes = IF d.dev # 0 THEN Append(@, d.dev) ELSE @]

grub_disk_close(g, d, t) ==
  [g EXCEPT !.closes = IF d.dev # 0 THEN Append(@, d.dev) ELSE @,
            !.last_time = t]

RECURSIVE TryDriversAll(_, _, _, _, _)
\* a driver walk that goes on past a driver's hard error
TryDriversAll(g, list, i, raw, d) ==
  IF i > Len(list)
  THEN [g |-> g, dev |-> 0, disk |-> d, fail |-> FALSE]
  ELSE LET o == DriverOpen(list[i], raw)
           g1 == [g EXCEPT !.opens = Append(@, [dev |-> list[i], raw |-> raw])]
       IN IF o.err = GRUB_ERR_NONE
          THEN [g |-> g1, dev |-> list[i],
                disk |-> [d EXCEPT !.dev_id = o.dev_id, !.id = o.id,
                                   !.log_sector_size = o.log_sector_size,
                                   !.total_sectors = o.total_sectors],
                fail |-> FALSE]
          ELSE TryDriversAll([g1 EXCEPT !.m.errno = GRUB_ERR_NONE], list,
                             i + 1, raw, d)

RECURSIVE TryDrivers(_, _, _, _, _)
\* the loop of lines 255-263 from list position i on
TryDrivers(g, list, i, raw, d) ==
  IF i > Len(list)
  THEN [g |-> g, dev |-> 0, disk |-> d, fail |-> FALSE]
  ELSE LET o == DriverOpen(list[i], raw)
           g1 == [g EXCEPT !.opens = Append(@, [dev |-> list[i], raw |-> raw])]
       IN IF o.err = GRUB_ERR_NONE
          THEN [g |-> g1, dev |-> list[i],
                disk |-> [d EXCEPT !.dev_id = o.dev_id, !.id = o.id,
                                   !.log_sector_size = o.log_sector_size,
                                   !.total_sectors = o.total_sectors],
                fail |-> FALSE]
          ELSE IF o.err = GRUB_ERR_UNKNOWN_DEVICE
               THEN TryDrivers([g1 EXCEPT !.m.errno = GRUB_ERR_NONE], list,
                               i + 1, raw, d)
               ELSE [g |-> [g1 EXCEPT !.m.errno = o.err], dev |-> 0,
                     disk |-> d, fail |-> TRUE]

\* the comparison with the bound included
CacheExpiredEarly(current_time, last_time) ==
  current_time >= last_time + GRUB_CACHE_TIMEOUT * 1000

\* the comparison of lines 298-299
CacheExpired(current_time, last_time) ==
  current_time > last_time + GRUB_CACHE_TIMEOUT * 1000

\* lines 304-319: the common exit
OpenExit(g, d, t) ==
  IF g.m.errno # GRUB_ERR_NONE
  THEN [g |-> grub_disk_close(g, d, t), disk |-> NoDisk]
  ELSE [g |-> g, disk |-> d]

\* a test that lets a sector smaller than GRUB_DISK_SECTOR_SIZE through
SectorSizeTooLarge(d) ==
  d.log_sector_size > GRUB_DISK_CACHE_BITS + GRUB_DISK_SECTOR_BITS

\* the test of lines 271-272
SectorSizeUnsupported(d) ==
  d.log_sector_size > GRUB_DISK_CACHE_BITS + GRUB_DISK_SECTOR_BITS
  \/ d.log_sector_size < GRUB_DISK_SECTOR_BITS

\* lines 255-302, once the name is split
OpenDevice(g, list, t, raw, sep, name, d0) ==
  LET w == TryDrivers(g, list, 1, raw, d0)
      d1 == w.disk
      bad == SectorSizeUnsupported(d1)
      d2 == [d1 EXCEPT !.dev = w.dev]
      spec == Slice(name, sep + 1, Len(name) - sep - 1)
      chain == grub_partition_probe(spec)
      g2 == [w.g EXCEPT !.probes = Append(@, spec)]
      d3 == IF sep >= 0 THEN [d2 EXCEPT !.partition = chain] ELSE d2
      g3 == IF sep >= 0 THEN g2 ELSE w.g
      g4 == [g3 EXCEPT
               !.m.cache = IF CacheExpired(t, g3.last_time)
                           THEN grub_disk_cache_invalidate_all(@) ELSE @,
               !.last_time = t]
  IN IF w.fail
     THEN OpenExit(w.g, d1, t)
     ELSE IF w.dev = 0
          THEN OpenExit([w.g EXCEPT !.m.errno = GRUB_ERR_UNKNOWN_DEVICE], d1, t)
          ELSE IF bad
               THEN OpenExit([w.g EXCEPT !.m.errno = GRUB_ERR_NOT_IMPLEMENTED_YET],
                             d1, t)
               ELSE IF sep >= 0 /\ chain = <<>>
                    THEN OpenExit([g2 EXCEPT !.m.errno = GRUB_ERR_UNKNOWN_DEVICE],
                                  d2, t)
                    ELSE OpenExit(g4, d3, t)

\* g: [m, last_time, opens, probes, closes]; list: the driver list; t: the
\* time; the result is the globals and the handle (NoDisk for 0)
grub_disk_open(g, p, list, t, name) ==
  LET a1 == grub_malloc(g.m, p, "disk")
      g1 == [g EXCEPT !.m = a1.m]
      sep == find_part_sep(name)
      \* lines 238-249
      a2 == grub_malloc(g1.m, p, "name")
      raw == IF sep >= 0 THEN Slice(name, 0, sep) ELSE name
      a3 == grub_malloc(a2.m, p, "name")
  IN IF ~a1.ok
     THEN [g |-> g1, disk |-> NoDisk]
     ELSE IF ~a2.ok
          THEN OpenExit([g1 EXCEPT !.m = a2.m], ZeroDisk, t)
          ELSE IF sep >= 0 /\ ~a3.ok
               THEN OpenExit([g1 EXCEPT !.m = a3.m], ZeroDisk, t)
               ELSE OpenDevice([g1 EXCEPT !.m = IF sep >= 0 THEN a3.m ELSE a2.m],
                               list, t, raw, sep, name,
                               [ZeroDisk EXCEPT !.name = raw])

\* grub_disk_dev_register: prepend
grub_disk_dev_register(list, d) == <<d>> \o list

\* grub_disk_dev_unregister: unlink the first occurrence
grub_disk_dev_unregister(list, d) ==
  IF \E i \in 1..Len(list) : list[i] = d
  THEN LET i == CHOOSE k \in 1..Len(list) :
                  list[k] = d /\ \A j \in 1..(k - 1) : list[j] # d
       IN SubSeq(list, 1, i - 1) \o SubSeq(list, i + 1, Len(list))
  ELSE list

(***************************************************************************)
(* State.                                                                  *)
(***************************************************************************)
VARIABLES
  grub_disk_cache_table,  \* the cache table, slot 0 .. GRUB_DISK_CACHE_NUM - 1
  grub_errno,             \* the pending error
  grub_last_time,         \* the last time the disk was used (ms)
  grub_disk_dev_list,     \* the registered drivers, head first
  device,                 \* the bytes of the medium
  disk,                   \* the handle grub_disk_open returned, or NoDisk
  now,                    \* grub_get_time_ms ()
  writes,                 \* number of grub_disk_write calls made
  write_failed            \* some driver write has failed

vars == <<grub_disk_cache_table, grub_errno, grub_last_time,
          grub_disk_dev_list, device, disk, now, writes, write_failed>>

MaxSector == 2
MaxOffset == 1
MaxSize == 5
MaxWSector == 0
MaxWrites == 1

Sectors == 0..MaxSector
Offsets == 0..MaxOffset

\* the caller's data: byte j of a write buffer
WriteByte(j) == 0 - j
WriteBuf(size) == [j \in 1..size |-> WriteByte(j)]

\* the medium as shipped: byte a holds a
FreshDevice == [i \in 1..DiskBytes |-> i - 1]

\* the machine a call starts on
Machine ==
  [cache |-> grub_disk_cache_table, dev |-> device, errno |-> grub_errno,
   nmalloc |-> 0, nread |-> 0, nwrite |-> 0, trace |-> <<>>, hooks |-> <<>>,
   oom |-> <<>>, seen |-> <<>>]

\* the handles open on the medium: the whole disk, its partition, and the
\* partition nested in it; the user of the outer partition installed a hook
OpenHandles ==
  {disk,
   [disk EXCEPT !.partition = <<Outer>>, !.read_hook = TRUE],
   [disk EXCEPT !.partition = <<Inner, Outer>>]}

\* request sizes: the small ones and the whole numbers of clusters
Sizes == (0..MaxSize) \cup {k * ClusterBytes : k \in 1..DiskClusters}

\* the sizes the callers ask for
ReadSizes ==
  {0, 1, GRUB_DISK_SECTOR_SIZE + 1, ClusterBytes, 2 * ClusterBytes, DiskBytes}
WriteSizes == {0, 1, 2 * GRUB_DISK_SECTOR_SIZE, MaxSize}

ReadPlans ==
  {NoFail} \cup {[NoFail EXCEPT !.mm = {k}] : k \in 1..2}
           \cup {[NoFail EXCEPT !.rd = {1}]}

\* a driver write fails part-way, or the read of the sector to patch fails
\* (its allocation, or both of its driver reads)
WritePlans ==
  {NoFail} \cup {[NoFail EXCEPT !.wr = k, !.wrdone = 1] : k \in 1..2}
           \cup {[NoFail EXCEPT !.mm = {1}], [NoFail EXCEPT !.rd = {1, 2}]}

EmptyTable == [i \in 0..(GRUB_DISK_CACHE_NUM - 1) |-> EmptyEntry]

\* a driver has opened the medium as "a"; it may or may not know the size
Init ==
  /\ grub_disk_cache_table = EmptyTable
  /\ grub_errno = GRUB_ERR_NONE
  /\ grub_last_time = 0
  /\ device = FreshDevice
  /\ \E d \in Drivers, known \in BOOLEAN :
       LET o == DriverOpen(d, <<"a">>)
       IN /\ grub_disk_dev_list = <<d>>
          /\ disk = [ZeroDisk EXCEPT
                       !.name = <<"a">>, !.dev = d, !.dev_id = o.dev_id,
                       !.id = o.id, !.log_sector_size = o.log_sector_size,
                       !.total_sectors = IF known THEN o.total_sectors
                                         ELSE GRUB_DISK_SIZE_UNKNOWN]
  /\ now = 0
  /\ writes = 0
  /\ write_failed = FALSE

\* r is what grub_disk_read gave
ReadReturns(r) ==
  /\ grub_disk_cache_table' = r.m.cache
  /\ grub_errno' = r.m.errno
  /\ UNCHANGED <<grub_last_time, grub_disk_dev_list, device, disk, now,
                 writes, write_failed>>

Read(h, sector, offset, size, p) ==
  /\ disk # NoDisk
  /\ grub_errno = GRUB_ERR_NONE
  /\ ReadReturns(grub_disk_read(Machine, p, h, sector, offset, size))

\* w is what grub_disk_write gave
WriteReturns(w) ==
  /\ grub_disk_cache_table' = w.m.cache
  /\ grub_errno' = w.m.errno
  /\ device' = w.m.dev
  /\ writes' = writes + 1
  /\ write_failed' = (write_failed
                      \/ \E i \in 1..Len(w.m.trace) :
                           w.m.trace[i].op = "write" /\ ~w.m.trace[i].ok)
  /\ UNCHANGED <<grub_last_time, grub_disk_dev_list, disk, now>>

Write(h, sector, offset, size, p) ==
  /\ disk # NoDisk
  /\ grub_errno = GRUB_ERR_NONE
  /\ writes < MaxWrites
  /\ WriteReturns(grub_disk_write(Machine, p, h, sector, offset, size,
                                  WriteBuf(size)))

\* the caller handles the pending error: grub_errno = GRUB_ERR_NONE
ClearError ==
  /\ grub_errno # GRUB_ERR_NONE
  /\ grub_errno' = GRUB_ERR_NONE
  /\ UNCHANGED <<grub_disk_cache_table, grub_last_time, grub_disk_dev_list,
                 device, disk, now, writes, write_failed>>

InvalidateAll ==
  /\ grub_errno = GRUB_ERR_NONE
  /\ grub_disk_cache_table' =
       grub_disk_cache_invalidate_all(grub_disk_cache_table)
  /\ UNCHANGED <<grub_errno, grub_last_time, grub_disk_dev_list, device, disk,
                 now, writes, write_failed>>

\* the requests the callers make: any read when nothing fails, and reads of
\* the whole disk at sector boundaries when an allocation or the driver fails
ReadRequests ==
  {q \in [h : OpenHandles, sector : Sectors, offset : Offsets,
          size : ReadSizes, p : ReadPlans] :
     q.p = NoFail \/ (q.h = disk /\ q.offset = 0)}

\* writes to the whole disk, and writes to the partitions when nothing fails
WriteRequests ==
  {q \in [h : OpenHandles, sector : 0..MaxWSector, offset : Offsets,
          size : WriteSizes, p : WritePlans] :
     q.h = disk \/ q.p = NoFail}

Next ==
  \/ \E q \in ReadRequests : Read(q.h, q.sector, q.offset, q.size, q.p)
  \/ \E q \in WriteRequests : Write(q.h, q.sector, q.offset, q.size, q.p)
  \/ ClearError
  \/ InvalidateAll

Spec == Init /\ [][Next]_vars

(***************************************************************************)
(* What a request means, stated on the medium.                             *)
(***************************************************************************)
RECURSIVE ChainStart(_, _)
\* logical sectors from the start of the medium to the start of the
\* partition of chain node i
ChainStart(parts, i) ==
  IF i > Len(parts) THEN 0 ELSE parts[i].start + ChainStart(parts, i + 1)

\* absolute byte position of (sector, offset) on handle h
AbsByte(h, sector, offset) ==
  (sector + ChainStart(h.partition, 1)) * GRUB_DISK_SECTOR_SIZE + offset

RECURSIVE ChainBefore(_, _)
\* logical sectors from the start of partition node i to the start of the
\* innermost partition
ChainBefore(parts, i) ==
  IF i <= 1 THEN 0 ELSE parts[i - 1].start + ChainBefore(parts, i - 1)

\* the bytes [start, start + size) lie in a region of len bytes
Inside(start, size, len) == start < len /\ start + size <= len

\* the request lies in every partition of the chain and on the medium
InRange(h, sector, offset, size) ==
  /\ \A i \in 1..Len(h.partition) :
       Inside((sector + ChainBefore(h.partition, i)) * GRUB_DISK_SECTOR_SIZE
                + offset,
              size, h.partition[i].len * GRUB_DISK_SECTOR_SIZE)
  /\ Inside(AbsByte(h, sector, offset), size, DiskBytes)

\* the request runs past the end of the innermost partition
Exceeds(h, sector, offset, size) ==
  /\ h.partition # <<>>
  /\ sector * GRUB_DISK_SECTOR_SIZE + offset + size
       > h.partition[1].len * GRUB_DISK_SECTOR_SIZE

\* the state a caller may start a request in
Callable == disk # NoDisk /\ grub_errno = GRUB_ERR_NONE

\* slot i of the table holds a cluster
Occupied(i) == grub_disk_cache_table[i].data # NoData

\* some cached cluster holds a byte a write put on the medium
CachedWritten ==
  \E i \in DOMAIN grub_disk_cache_table :
    \E j \in 1..Len(grub_disk_cache_table[i].data) :
      grub_disk_cache_table[i].data[j] < 0

(***************************************************************************)
(* C1.  Round trip: when grub_disk_write(h, sector, offset, size, x)       *)
(* returns GRUB_ERR_NONE, a following grub_disk_read of the same range on  *)
(* the same handle returns GRUB_ERR_NONE and x, and a read of any          *)
(* sub-range returns the corresponding bytes of x, whatever the cache held *)
(* before the write.                                                       *)
(***************************************************************************)
ReadsBack(m, h, sector, offset, size, d, n) ==
  LET r == grub_disk_read(m, NoFail, h, sector, offset + d, n)
  IN r.ret = GRUB_ERR_NONE /\ r.buf = Slice(WriteBuf(size), d, n)

C1_RoundTrip ==
  Callable =>
    \A h \in OpenHandles, sector \in Sectors, offset \in Offsets,
       size \in 0..MaxSize, p \in {NoFail, [NoFail EXCEPT !.rd = {1}]} :
      LET w == grub_disk_write(Machine, p, h, sector, offset, size,
                               WriteBuf(size))
      IN w.ret = GRUB_ERR_NONE =>
           /\ ReadsBack(w.m, h, sector, offset, size, 0, size)
           /\ \A d \in 0..(size - 1), n \in 1..size :
                d + n <= size => ReadsBack(w.m, h, sector, offset, size, d, n)

\* a write succeeded and a later read cached the bytes it wrote
C1_Witness ==
  Callable /\ writes > 0 /\ ~write_failed /\ CachedWritten

(***************************************************************************)
(* C2.  Cache transparency: as long as no driver write has failed, every   *)
(* in-range grub_disk_read with a driver that does not fail returns        *)
(* GRUB_ERR_NONE and exactly the bytes of the medium at                    *)
(* [abs_sector * SECTOR_SIZE + offset, + size), in every cache state that  *)
(* reads, writes and grub_disk_cache_invalidate_all lead to; the same read *)
(* after grub_disk_cache_invalidate_all returns the same bytes.            *)
(***************************************************************************)
C2_CacheTransparency ==
  (Callable /\ ~write_failed) =>
    \A h \in OpenHandles, sector \in Sectors, offset \in Offsets,
       size \in Sizes :
      InRange(h, sector, offset, size) =>
        LET r == grub_disk_read(Machine, NoFail, h, sector, offset, size)
            purged == [Machine EXCEPT
                         !.cache = grub_disk_cache_invalidate_all(@)]
            r2 == grub_disk_read(purged, NoFail, h, sector, offset, size)
        IN /\ r.ret = GRUB_ERR_NONE
           /\ r.buf = Slice(device, AbsByte(h, sector, offset), size)
           /\ r2.ret = GRUB_ERR_NONE
           /\ r2.buf = r.buf

\* after a write that succeeded, a cluster the write changed is cached
\* next to one it did not touch
C2_Witness ==
  /\ Callable /\ writes > 0 /\ ~write_failed /\ device # FreshDevice
  /\ CachedWritten
  /\ \E i \in DOMAIN grub_disk_cache_table :
       /\ Occupied(i)
       /\ \A j \in 1..Len(grub_disk_cache_table[i].data) :
            grub_disk_cache_table[i].data[j] >= 0

(***************************************************************************)
(* C3.  Bounds: a read or write whose range runs past the end of the       *)
(* innermost partition fails with GRUB_ERR_OUT_OF_RANGE and performs no    *)
(* driver I/O.                                                             *)
(***************************************************************************)
C3_Bounds ==
  Callable =>
    \A h \in OpenHandles, sector \in Sectors, offset \in Offsets,
       size \in Sizes :
      Exceeds(h, sector, offset, size) =>
        LET r == grub_disk_read(Machine, NoFail, h, sector, offset, size)
            w == grub_disk_write(Machine, NoFail, h, sector, offset, size,
                                 WriteBuf(size))
        IN /\ r.ret = GRUB_ERR_OUT_OF_RANGE
           /\ r.m.trace = <<>>
           /\ w.ret = GRUB_ERR_OUT_OF_RANGE
           /\ w.m.trace = <<>>

\* C3, the part the read and the driver keep: the read fails with
\* GRUB_ERR_OUT_OF_RANGE, the write fails, grub_errno is
\* GRUB_ERR_OUT_OF_RANGE after both, and neither calls the driver
C3_BoundsKept ==
  Callable =>
    \A h \in OpenHandles, sector \in Sectors, offset \in Offsets,
       size \in Sizes :
      Exceeds(h, sector, offset, size) =>
        LET r == grub_disk_read(Machine, NoFail, h, sector, offset, size)
            w == grub_disk_write(Machine, NoFail, h, sector, offset, size,
                                 WriteBuf(size))
        IN /\ r.ret = GRUB_ERR_OUT_OF_RANGE
           /\ r.m.trace = <<>>
           /\ w.ret # GRUB_ERR_NONE
           /\ w.m.errno = GRUB_ERR_OUT_OF_RANGE
           /\ w.m.trace = <<>>
           /\ w.m.dev = device

(***************************************************************************)
(* C4.  Write granularity: a write that returns GRUB_ERR_NONE changes on   *)
(* the medium only the bytes of the requested range; the rest of every     *)
(* native sector it writes keeps its previous content.                     *)
(***************************************************************************)
C4_WriteGranularity ==
  Callable =>
    \A h \in OpenHandles, sector \in Sectors, offset \in Offsets,
       size \in 0..MaxSize, p \in {NoFail, [NoFail EXCEPT !.rd = {1}]} :
      LET w == grub_disk_write(Machine, p, h, sector, offset, size,
                               WriteBuf(size))
          first == AbsByte(h, sector, offset)
      IN w.ret = GRUB_ERR_NONE =>
           \A a \in 0..(DiskBytes - 1) :
             (a < first \/ a >= first + size) => w.m.dev[a + 1] = device[a + 1]

\* C4 as long as no driver write has failed
C4_WriteGranularityCoherent ==
  (Callable /\ ~write_failed) =>
    \A h \in OpenHandles, sector \in Sectors, offset \in Offsets,
       size \in 0..MaxSize, p \in {NoFail, [NoFail EXCEPT !.rd = {1}]} :
      LET w == grub_disk_write(Machine, p, h, sector, offset, size,
                               WriteBuf(size))
          first == AbsByte(h, sector, offset)
      IN w.ret = GRUB_ERR_NONE =>
           \A a \in 0..(DiskBytes - 1) :
             (a < first \/ a >= first + size) => w.m.dev[a + 1] = device[a + 1]

(***************************************************************************)
(* C5.  Hook fidelity: a read on a handle with read_hook set that delivers *)
(* its bytes calls the hook once per logical sector touched, in increasing *)
(* sector order from (real_sector, real_offset): the first call has offset *)
(* real_offset and length min(SECTOR_SIZE - real_offset, size), every      *)
(* later call has offset 0, and the calls cover the requested bytes        *)
(* exactly once; a read that fails before it has delivered its bytes calls *)
(* the hook zero times.                                                    *)
(***************************************************************************)
Max(a, b) == IF a > b THEN a ELSE b

\* the calls that cover the size bytes from absolute byte first, one per
\* logical sector
ExpectedHooks(first, size) ==
  LET s0 == first \div GRUB_DISK_SECTOR_SIZE
      n == IF size = 0 THEN 0
           ELSE (first + size - 1) \div GRUB_DISK_SECTOR_SIZE - s0 + 1
  IN [i \in 1..n |->
        LET lo == Max(first, (s0 + i - 1) * GRUB_DISK_SECTOR_SIZE)
            hi == Min(first + size, (s0 + i) * GRUB_DISK_SECTOR_SIZE)
        IN [sector |-> s0 + i - 1,
            offset |-> lo - (s0 + i - 1) * GRUB_DISK_SECTOR_SIZE,
            length |-> hi - lo]]

HookHandles == {[h EXCEPT !.read_hook = TRUE] : h \in OpenHandles}

C5_HookFidelity ==
  Callable =>
    \A h \in HookHandles, sector \in Sectors, offset \in Offsets,
       size \in Sizes, p \in ReadPlans :
      LET r == grub_disk_read(Machine, p, h, sector, offset, size)
      IN IF Len(r.buf) = size
         THEN r.m.hooks = ExpectedHooks(AbsByte(h, sector, offset), size)
         ELSE r.m.hooks = <<>>

\* with a cluster cached, a read that starts inside a sector and ends in a
\* later one delivers its bytes and calls the hook more than once, and the
\* same read with a failing allocation calls it not at all
C5_Witness ==
  /\ Callable
  /\ \E i \in DOMAIN grub_disk_cache_table : Occupied(i)
  /\ \E h \in HookHandles, sector \in Sectors :
       LET size == GRUB_DISK_SECTOR_SIZE + 1
           r == grub_disk_read(Machine, NoFail, h, sector, 1, size)
           f == grub_disk_read(Machine, [NoFail EXCEPT !.mm = {1}], h,
                               sector, 1, size)
       IN /\ Len(r.buf) = size /\ Len(r.m.hooks) > 1
          /\ Len(f.buf) < size /\ f.m.hooks = <<>>

(***************************************************************************)
(* C6.  A cache allocation failure in grub_disk_cache_store is swallowed:  *)
(* when every driver read of a request succeeds and the only failure is    *)
(* the allocation inside the store, grub_disk_read returns GRUB_ERR_NONE   *)
(* with the bytes of the medium delivered.                                 *)
(***************************************************************************)
StorePlans == {[NoFail EXCEPT !.mm = {k}] : k \in 1..2}

\* the only thing that failed in the call that led to m is the store
OnlyStoreFailed(m) ==
  /\ m.oom # <<>>
  /\ \A i \in 1..Len(m.oom) : m.oom[i] = "store"
  /\ \A i \in 1..Len(m.trace) : m.trace[i].ok

C6_StoreFailureSwallowed ==
  (Callable /\ ~write_failed) =>
    \A h \in OpenHandles, sector \in Sectors, offset \in Offsets,
       size \in Sizes, p \in StorePlans :
      LET r == grub_disk_read(Machine, p, h, sector, offset, size)
      IN (InRange(h, sector, offset, size) /\ OnlyStoreFailed(r.m)) =>
           /\ r.ret = GRUB_ERR_NONE
           /\ r.buf = Slice(device, AbsByte(h, sector, offset), size)

\* C6, the part the code keeps: the bytes are delivered, and the result is
\* the pending error, GRUB_ERR_OUT_OF_MEMORY unless a later fallback read
\* of the same request cleared it
C6_StoreFailureDelivers ==
  (Callable /\ ~write_failed) =>
    \A h \in OpenHandles, sector \in Sectors, offset \in Offsets,
       size \in Sizes, p \in StorePlans :
      LET r == grub_disk_read(Machine, p, h, sector, offset, size)
      IN (InRange(h, sector, offset, size) /\ OnlyStoreFailed(r.m)) =>
           /\ r.ret \in {GRUB_ERR_NONE, GRUB_ERR_OUT_OF_MEMORY}
           /\ r.ret = r.m.errno
           /\ r.buf = Slice(device, AbsByte(h, sector, offset), size)

(***************************************************************************)
(* C8.  Agglomeration: a cluster-aligned read with offset 0 of k           *)
(* contiguous clusters, none of them cached, k at most                     *)
(* GRUB_DISK_CACHE_NUM, with no allocation failure, makes exactly one      *)
(* driver read, from the native sector of the first cluster over the       *)
(* native sectors of all k clusters; the same read repeated at once makes  *)
(* no driver read.                                                         *)
(***************************************************************************)
\* no slot holds the cluster at logical sector c of handle h
Uncached(h, c) ==
  \A i \in DOMAIN grub_disk_cache_table :
    ~(/\ KeyMatch(grub_disk_cache_table[i], h.dev_id, h.id, c)
      /\ Occupied(i))

ClusterCounts == 1..Min(GRUB_DISK_CACHE_NUM, DiskClusters)

C8_Agglomeration ==
  Callable =>
    \A h \in OpenHandles, sector \in Sectors, k \in ClusterCounts :
      LET first == sector + ChainStart(h.partition, 1)
          size == k * ClusterBytes
          r == grub_disk_read(Machine, NoFail, h, sector, 0, size)
          again == grub_disk_read([r.m EXCEPT !.trace = <<>>], NoFail, h,
                                  sector, 0, size)
      IN (/\ first % GRUB_DISK_CACHE_SIZE = 0
          /\ InRange(h, sector, 0, size)
          /\ \A i \in 0..(k - 1) :
               Uncached(h, first + i * GRUB_DISK_CACHE_SIZE)) =>
           /\ r.m.trace =
                <<[op |-> "read",
                   sector |-> (first * GRUB_DISK_SECTOR_SIZE)
                                \div NativeBytes(h),
                   n |-> size \div NativeBytes(h),
                   ok |-> TRUE]>>
           /\ again.m.trace = <<>>

\* two contiguous clusters sit in the cache, and reading them again makes
\* no driver read
C8_Witness ==
  /\ Callable
  /\ \A i \in DOMAIN grub_disk_cache_table :
       Occupied(i) /\ grub_disk_cache_table[i].lock = 0
  /\ \E sector \in Sectors :
       /\ ~Uncached(disk, sector)
       /\ ~Uncached(disk, sector + GRUB_DISK_CACHE_SIZE)
       /\ grub_disk_read(Machine, NoFail, disk, sector, 0,
                         2 * ClusterBytes).m.trace = <<>>

(***************************************************************************)
(* The life cycle: drivers register, a name is opened, the handle is read  *)
(* and closed, time passes.                                                *)
(***************************************************************************)
MaxNameLen == 4
MaxTime == 3000

Chars == {"a", ",", "\\"}

RECURSIVE NamesOfLen(_)
NamesOfLen(n) ==
  IF n = 0 THEN {<<>>}
  ELSE {Append(w, c) : w \in NamesOfLen(n - 1), c \in Chars}

Names == UNION {NamesOfLen(n) : n \in 0..MaxNameLen}

Ticks == {500, 1500, 3000}

OpenPlans == {NoFail} \cup {[NoFail EXCEPT !.mm = {k}] : k \in 2..3}

\* the globals an open or close starts on
Globals ==
  [m |-> Machine, last_time |-> grub_last_time, opens |-> <<>>,
   probes |-> <<>>, closes |-> <<>>]

InitOpen ==
  /\ grub_disk_cache_table = EmptyTable
  /\ grub_errno = GRUB_ERR_NONE
  /\ grub_last_time = 0
  /\ grub_disk_dev_list = <<>>
  /\ device = FreshDevice
  /\ disk = NoDisk
  /\ now = 0
  /\ writes = 0
  /\ write_failed = FALSE

Register(d) ==
  /\ \A i \in 1..Len(grub_disk_dev_list) : grub_disk_dev_list[i] # d
  /\ disk = NoDisk
  /\ grub_disk_dev_list' = grub_disk_dev_register(grub_disk_dev_list, d)
  /\ UNCHANGED <<grub_disk_cache_table, grub_errno, grub_last_time, device,
                 disk, now, writes, write_failed>>

Unregister(d) ==
  /\ \E i \in 1..Len(grub_disk_dev_list) : grub_disk_dev_list[i] = d
  /\ disk = NoDisk
  /\ grub_disk_dev_list' = grub_disk_dev_unregister(grub_disk_dev_list, d)
  /\ UNCHANGED <<grub_disk_cache_table, grub_errno, grub_last_time, device,
                 disk, now, writes, write_failed>>

\* o is what grub_disk_open gave
OpenReturns(o) ==
  /\ grub_disk_cache_table' = o.g.m.cache
  /\ grub_errno' = o.g.m.errno
  /\ grub_last_time' = o.g.last_time
  /\ disk' = o.disk
  /\ UNCHANGED <<grub_disk_dev_list, device, now, writes, write_failed>>

Open(name, p) ==
  /\ disk = NoDisk
  /\ grub_errno = GRUB_ERR_NONE
  /\ OpenReturns(grub_disk_open(Globals, p, grub_disk_dev_list, now, name))

Close ==
  /\ disk # NoDisk
  /\ grub_last_time' = grub_disk_close(Globals, disk, now).last_time
  /\ disk' = NoDisk
  /\ UNCHANGED <<grub_disk_cache_table, grub_errno, grub_disk_dev_list,
                 device, now, writes, write_failed>>

Tick(d) ==
  /\ now + d <= MaxTime
  /\ now' = now + d
  /\ UNCHANGED <<grub_disk_cache_table, grub_errno, grub_last_time,
                 grub_disk_dev_list, device, disk, writes, write_failed>>

\* read the first cluster of the open handle
ReadCluster ==
  Read(disk, 0, 0, ClusterBytes, NoFail)

NextOpen ==
  \/ \E d \in Drivers : Register(d)
  \/ \E d \in Drivers : Unregister(d)
  \/ \E name \in Names, p \in OpenPlans : Open(name, p)
  \/ Close
  \/ \E d \in Ticks : Tick(d)
  \/ ReadCluster
  \/ ClearError

SpecOpen == InitOpen /\ [][NextOpen]_vars

(***************************************************************************)
(* C7.  Stale-reopen purge: a successful grub_disk_open at time now frees  *)
(* every unlocked occupied cache entry iff now - grub_last_time is more    *)
(* than GRUB_CACHE_TIMEOUT seconds, leaves the table unchanged otherwise,  *)
(* and sets grub_last_time to now in both cases; grub_disk_close sets      *)
(* grub_last_time to now.  So when the first cluster of a whole disk was   *)
(* cached before the open, reading it after the open is a cache hit when   *)
(* no more than the timeout has passed and a miss when more has passed.    *)
(***************************************************************************)
\* the table with every unlocked occupied entry freed
PurgedTable(t) ==
  [i \in DOMAIN t |->
     IF t[i].data # NoData /\ t[i].lock = 0
     THEN [t[i] EXCEPT !.data = NoData]
     ELSE t[i]]

Stale == now - grub_last_time > GRUB_CACHE_TIMEOUT * 1000

\* a step in which grub_disk_open returns a handle
Opened == disk = NoDisk /\ disk' # NoDisk

\* a step in which grub_disk_close gives the handle back
Closed == disk # NoDisk /\ disk' = NoDisk

\* the driver reads a read of the first cluster makes after the step
FirstClusterReads ==
  grub_disk_read(
    [cache |-> grub_disk_cache_table', dev |-> device', errno |-> grub_errno',
     nmalloc |-> 0, nread |-> 0, nwrite |-> 0, trace |-> <<>>,
     hooks |-> <<>>, oom |-> <<>>, seen |-> <<>>],
    NoFail, disk', 0, 0, ClusterBytes).m.trace

\* the step opens a whole disk whose first cluster is cached before the step
FirstClusterCached ==
  \E i \in DOMAIN grub_disk_cache_table :
    /\ disk'.partition = <<>>
    /\ KeyMatch(grub_disk_cache_table[i], disk'.dev_id, disk'.id, 0)
    /\ Occupied(i)

C7_StaleReopenPurge ==
  [][/\ Opened =>
          /\ grub_disk_cache_table' =
               IF Stale THEN PurgedTable(grub_disk_cache_table)
               ELSE grub_disk_cache_table
          /\ grub_last_time' = now
          /\ FirstClusterCached =>
               IF Stale THEN FirstClusterReads # <<>>
               ELSE FirstClusterReads = <<>>
     /\ Closed => grub_last_time' = now]_vars

\* a disk is open, just opened more than the timeout after the last use,
\* and the cluster cached for it has been freed
C7_Witness ==
  /\ disk # NoDisk
  /\ grub_last_time = now
  /\ now > GRUB_CACHE_TIMEOUT * 1000
  /\ \E i \in DOMAIN grub_disk_cache_table :
       /\ KeyMatch(grub_disk_cache_table[i], disk.dev_id, disk.id, 0)
       /\ grub_disk_cache_table[i].dev_id # 0
       /\ ~Occupied(i)

(***************************************************************************)
(* C9.  Name splitting in grub_disk_open: the name is split at the first   *)
(* comma not preceded by a backslash; the device name handed to every      *)
(* driver tried is the part before that comma, as written, backslashes     *)
(* included; the partition spec handed to grub_partition_probe is the      *)
(* rest after the comma.                                                   *)
(***************************************************************************)
\* position (from 1) of the first comma not preceded by a backslash, 0 if
\* there is none
Separator(name) ==
  LET S == {i \in 1..Len(name) :
              name[i] = "," /\ (i = 1 \/ name[i - 1] # "\\")}
  IN IF S = {} THEN 0 ELSE CHOOSE i \in S : \A j \in S : i <= j

DevicePart(name) ==
  IF Separator(name) = 0 THEN name ELSE SubSeq(name, 1, Separator(name) - 1)

PartitionPart(name) == SubSeq(name, Separator(name) + 1, Len(name))

RECURSIVE Unescape(_)
\* s with every backslash-comma replaced by a comma
Unescape(s) ==
  IF Len(s) = 0 THEN s
  ELSE IF Len(s) >= 2 /\ s[1] = "\\" /\ s[2] = ","
       THEN <<",">> \o Unescape(SubSeq(s, 3, Len(s)))
       ELSE <<s[1]>> \o Unescape(Tail(s))

\* the state grub_disk_open may be called in
Openable ==
  disk = NoDisk /\ grub_errno = GRUB_ERR_NONE /\ grub_disk_dev_list # <<>>

\* what grub_disk_open (name) hands out, with raw the name the claim
\* expects the drivers to get
SplitsAs(name, raw) ==
  LET o == grub_disk_open(Globals, NoFail, grub_disk_dev_list, now, name)
  IN /\ o.g.opens # <<>>
     /\ \A i \in 1..Len(o.g.opens) : o.g.opens[i].raw = raw
     /\ \A i \in 1..Len(o.g.probes) :
          Separator(name) # 0 /\ o.g.probes[i] = PartitionPart(name)
     /\ (o.disk # NoDisk /\ Separator(name) # 0) => Len(o.g.probes) = 1

C9_NameSplit ==
  Openable => \A name \in Names : SplitsAs(name, DevicePart(name))

\* C9 as stated: the drivers get the device name with each backslash-comma
\* replaced by a comma
C9_NameSplitUnescaped ==
  Openable => \A name \in Names : SplitsAs(name, Unescape(DevicePart(name)))

\* a name with an escaped comma and a partition was opened: the handle
\* carries the device name and the partition
C9_Witness ==
  /\ disk # NoDisk
  /\ disk.name = <<"\\", ",">>
  /\ disk.partition # <<>>

(***************************************************************************)
(* C10.  Driver selection in grub_disk_open: registering puts a driver at  *)
(* the head of the list; the drivers are tried in list order up to the     *)
(* first one that does not report GRUB_ERR_UNKNOWN_DEVICE; if that driver  *)
(* succeeds it is the driver of the handle and grub_errno is clear, if it  *)
(* reports another error the open fails with that error; if every driver   *)
(* reports GRUB_ERR_UNKNOWN_DEVICE, or there is none, the open fails with  *)
(* GRUB_ERR_UNKNOWN_DEVICE.                                                *)
(***************************************************************************)
\* position of the first driver of the list that does not report
\* GRUB_ERR_UNKNOWN_DEVICE for raw, 0 if there is none
FirstClaiming(list, raw) ==
  LET S == {i \in 1..Len(list) :
              DriverOpen(list[i], raw).err # GRUB_ERR_UNKNOWN_DEVICE}
  IN IF S = {} THEN 0 ELSE CHOOSE i \in S : \A j \in S : i <= j

SelectsDriver(name) ==
  LET list == grub_disk_dev_list
      o == grub_disk_open(Globals, NoFail, list, now, name)
      raw == DevicePart(name)
      stop == FirstClaiming(list, raw)
      err == DriverOpen(list[stop], raw).err
  IN /\ Len(o.g.opens) = IF stop = 0 THEN Len(list) ELSE stop
     /\ \A i \in 1..Len(o.g.opens) : o.g.opens[i].dev = list[i]
     /\ stop = 0 =>
          o.disk = NoDisk /\ o.g.m.errno = GRUB_ERR_UNKNOWN_DEVICE
     /\ (stop # 0 /\ err # GRUB_ERR_NONE) =>
          o.disk = NoDisk /\ o.g.m.errno = err
     /\ (stop # 0 /\ err = GRUB_ERR_NONE) =>
          IF o.disk # NoDisk
          THEN o.disk.dev = list[stop] /\ o.g.m.errno = GRUB_ERR_NONE
          ELSE o.g.m.errno \in {GRUB_ERR_NOT_IMPLEMENTED_YET,
                                GRUB_ERR_UNKNOWN_DEVICE}

C10_DriverSelection ==
  /\ [](disk = NoDisk /\ grub_errno = GRUB_ERR_NONE =>
          \A name \in Names : SelectsDriver(name))
  /\ [][Len(grub_disk_dev_list') > Len(grub_disk_dev_list) =>
          /\ Tail(grub_disk_dev_list') = grub_disk_dev_list
          /\ \A i \in 1..Len(grub_disk_dev_list) :
               grub_disk_dev_list[i] # Head(grub_disk_dev_list')]_vars

\* the driver registered last reported GRUB_ERR_UNKNOWN_DEVICE and the
\* driver registered before it serves the handle
C10_Witness ==
  /\ disk # NoDisk
  /\ grub_errno = GRUB_ERR_NONE
  /\ grub_disk_dev_list = <<2, 1>>
  /\ disk.dev = 1

(***************************************************************************)
(* C11.  Sector-size validation: every handle a successful grub_disk_open  *)
(* returns has GRUB_DISK_SECTOR_BITS <= log_sector_size <=                 *)
(* GRUB_DISK_SECTOR_BITS + GRUB_DISK_CACHE_BITS; when the driver that      *)
(* accepts the name sets log_sector_size outside that interval, the open   *)
(* fails with GRUB_ERR_NOT_IMPLEMENTED_YET and returns no handle.          *)
(***************************************************************************)
SupportedSectorSize(l) ==
  GRUB_DISK_SECTOR_BITS <= l
  /\ l <= GRUB_DISK_SECTOR_BITS + GRUB_DISK_CACHE_BITS

\* what the driver that accepted the name in the open o filled in; the
\* accepting driver is the last one tried
Accepted(o) ==
  LET last == o.g.opens[Len(o.g.opens)]
  IN DriverOpen(last.dev, last.raw)

ValidatesSectorSize(name, p) ==
  LET o == grub_disk_open(Globals, p, grub_disk_dev_list, now, name)
  IN /\ o.disk # NoDisk => SupportedSectorSize(o.disk.log_sector_size)
     /\ (/\ o.g.opens # <<>>
         /\ Accepted(o).err = GRUB_ERR_NONE
         /\ ~SupportedSectorSize(Accepted(o).log_sector_size)) =>
          o.disk = NoDisk /\ o.g.m.errno = GRUB_ERR_NOT_IMPLEMENTED_YET

C11_SectorSize ==
  /\ disk # NoDisk => SupportedSectorSize(disk.log_sector_size)
  /\ (disk = NoDisk /\ grub_errno = GRUB_ERR_NONE) =>
       \A name \in Names, p \in OpenPlans : ValidatesSectorSize(name, p)

\* an open has just failed on the sector size of the driver at the head of
\* the list, which serves the name with sectors smaller than
\* GRUB_DISK_SECTOR_SIZE
C11_Witness ==
  /\ disk = NoDisk
  /\ grub_errno = GRUB_ERR_NOT_IMPLEMENTED_YET
  /\ grub_disk_dev_list # <<>>
  /\ LET o == DriverOpen(Head(grub_disk_dev_list), <<"a", "a", "a", "a">>)
     IN o.err = GRUB_ERR_NONE /\ o.log_sector_size < GRUB_DISK_SECTOR_BITS


(***************************************************************************)
(* C12.  Range adjustment under fixed-width arithmetic: for all word-width *)
(* sector, offset and size, when grub_disk_adjust_range succeeds the       *)
(* offset it leaves is below GRUB_DISK_SECTOR_SIZE, the sector it leaves   *)
(* is sector + offset / GRUB_DISK_SECTOR_SIZE plus the starts of the       *)
(* partitions of the chain (as a word), and the true, unwrapped byte range *)
(* [sector * GRUB_DISK_SECTOR_SIZE + offset, + size) lies inside every     *)
(* partition of the chain and, when total_sectors is known, on the disk.   *)
(***************************************************************************)
\* the words at both ends of the range of grub_disk_addr_t
WordEdges ==
  {0, 1, GRUB_DISK_SECTOR_SIZE, Pow2(WordBits) - GRUB_DISK_SECTOR_SIZE,
   Pow2(WordBits) - 1}

WordSectors == Sectors \cup WordEdges
WordOffsets == Offsets \cup WordEdges
WordSizes == ReadSizes \cup WordEdges

\* the true byte range lies in every partition of the chain
InPartitions(h, sector, offset, size) ==
  \A i \in 1..Len(h.partition) :
    Inside((sector + ChainBefore(h.partition, i)) * GRUB_DISK_SECTOR_SIZE
             + offset,
           size, h.partition[i].len * GRUB_DISK_SECTOR_SIZE)

\* the true byte range lies on the disk, as far as its size is known
OnDisk(h, sector, offset, size) ==
  h.total_sectors # GRUB_DISK_SIZE_UNKNOWN =>
    Inside(AbsByte(h, sector, offset), size,
           h.total_sectors * NativeBytes(h))

AdjustSound(h, sector, offset, size) ==
  LET a == grub_disk_adjust_range(Machine, h, sector, offset, size)
  IN a.err = GRUB_ERR_NONE =>
       /\ a.offset < GRUB_DISK_SECTOR_SIZE
       /\ a.sector = Wrap(sector + offset \div GRUB_DISK_SECTOR_SIZE
                            + ChainStart(h.partition, 1))
       /\ InPartitions(h, sector, offset, size)
       /\ OnDisk(h, sector, offset, size)

\* neither sum of lines 353 and 365 leaves the word
NoWrap(sector, offset, size) ==
  /\ sector + offset \div GRUB_DISK_SECTOR_SIZE < Pow2(WordBits)
  /\ (offset % GRUB_DISK_SECTOR_SIZE) + size + GRUB_DISK_SECTOR_SIZE - 1
       < Pow2(WordBits)

C12_AdjustRange ==
  disk # NoDisk =>
    \A h \in OpenHandles, sector \in WordSectors, offset \in WordOffsets,
       size \in WordSizes :
      AdjustSound(h, sector, offset, size)

\* the same for the requests whose sums stay in the word
C12_AdjustRangeNoWrap ==
  disk # NoDisk =>
    \A h \in OpenHandles, sector \in WordSectors, offset \in WordOffsets,
       size \in WordSizes :
      NoWrap(sector, offset, size) => AdjustSound(h, sector, offset, size)


(***************************************************************************)
(* C13.  No stale cache entry after a write: when grub_disk_write returns, *)
(* with GRUB_ERR_NONE or with an error after a driver write or the inner   *)
(* read failed, every occupied cache entry of the disk holds the bytes the *)
(* medium now holds for its cluster.                                       *)
(***************************************************************************)
\* slot i of table t holds what the medium dev holds for its cluster
Fresh(t, dev, i) ==
  t[i].data = Slice(dev, t[i].sector * GRUB_DISK_SECTOR_SIZE, ClusterBytes)

\* no occupied slot differs from the medium
Coherent ==
  \A i \in DOMAIN grub_disk_cache_table :
    Occupied(i) => Fresh(grub_disk_cache_table, device, i)

\* a step in which grub_disk_write returns
WriteReturned == writes' # writes

C13_NoStaleEntry ==
  [][WriteReturned => Coherent']_vars

\* the same for the writes in which no driver write failed
C13_NoStaleEntryUnfailed ==
  [][(WriteReturned /\ ~write_failed') => Coherent']_vars


(***************************************************************************)
(* C14.  Invalidation precedes every write of overlapping bytes: at the    *)
(* moment grub_disk_write issues a driver write, in the read-modify-write  *)
(* path and in the bulk path, no occupied cache entry of the disk exists   *)
(* for a cluster that overlaps the native sectors the driver write covers. *)
(***************************************************************************)
\* slot i of table t holds a cluster of h that overlaps the n native
\* sectors from native sector nsector on
CachedUnder(t, i, h, nsector, n) ==
  LET ratio == Pow2(h.log_sector_size - GRUB_DISK_SECTOR_BITS)
  IN /\ t[i].data # NoData
     /\ t[i].dev_id = h.dev_id /\ t[i].disk_id = h.id
     /\ t[i].sector < (nsector + n) * ratio
     /\ nsector * ratio < t[i].sector + GRUB_DISK_CACHE_SIZE

\* every driver write of the log found the clusters it covers uncached
WritesUncached(h, seen) ==
  \A k \in 1..Len(seen) :
    seen[k].op = "write" =>
      \A i \in DOMAIN seen[k].cache :
        ~CachedUnder(seen[k].cache, i, h, seen[k].sector, seen[k].n)

C14_InvalidationFirst ==
  Callable =>
    \A q \in WriteRequests :
      WritesUncached(q.h, grub_disk_write(Machine, q.p, q.h, q.sector,
                                          q.offset, q.size,
                                          WriteBuf(q.size)).m.seen)

\* the same for the writes that stay within one native sector without
\* filling it, which go through the read-modify-write path alone
C14_InvalidationFirstSector ==
  Callable =>
    \A q \in WriteRequests :
      (q.size > 0 /\ q.offset + q.size < NativeBytes(q.h)) =>
        LET w == grub_disk_write(Machine, q.p, q.h, q.sector, q.offset,
                                 q.size, WriteBuf(q.size))
        IN /\ WritesUncached(q.h, w.m.seen)
           /\ (q.p = NoFail /\ w.ret = GRUB_ERR_NONE) =>
                \E k \in 1..Len(w.m.trace) : w.m.trace[k].op = "write"


(***************************************************************************)
(* C15.  Small-read fallback: on a cache miss grub_disk_read_small fetches *)
(* a cluster that fits entirely within the disk (any cluster when the size *)
(* is unknown) with one driver read of the whole cluster and, when that    *)
(* succeeds, stores it in the cache; when that read fails, or is skipped   *)
(* because the cluster runs past the end of the disk, the pending error is *)
(* cleared and exactly one driver read of the aligned native sectors that  *)
(* cover the requested bytes is made, whose bytes are returned and not     *)
(* cached; when this second read fails the request fails with the          *)
(* driver's error.                                                         *)
(***************************************************************************)
\* which of the two driver reads fail
FallbackPlans == {[NoFail EXCEPT !.rd = S] : S \in SUBSET {1, 2}}

\* the logical sectors at which the clusters of the medium start
ClusterStarts == {c * GRUB_DISK_CACHE_SIZE : c \in 0..(DiskClusters - 1)}

\* the cluster at logical sector c ends at or before the end of the disk
FitsOnDisk(h, c) ==
  h.total_sectors = GRUB_DISK_SIZE_UNKNOWN
  \/ (c + GRUB_DISK_CACHE_SIZE) * GRUB_DISK_SECTOR_SIZE
       <= h.total_sectors * NativeBytes(h)

\* the cluster at logical sector c ends before the last logical sector
EndsBeforeLast(h, c) ==
  h.total_sectors = GRUB_DISK_SIZE_UNKNOWN
  \/ (c + GRUB_DISK_CACHE_SIZE) * GRUB_DISK_SECTOR_SIZE
       < h.total_sectors * NativeBytes(h)

\* call k of the log is a driver read of the native sectors that hold the
\* bytes [first, first + size) of the medium
ReadsBytes(h, trace, k, first, size) ==
  /\ Len(trace) >= k
  /\ trace[k].op = "read"
  /\ trace[k].sector = first \div NativeBytes(h)
  /\ trace[k].n = (first + size - 1) \div NativeBytes(h)
                    - first \div NativeBytes(h) + 1

\* r is what grub_disk_read_small gave for the bytes [offset, offset + size)
\* of the uncached cluster at c; whole tells whether the cluster is to be
\* read as a whole
SmallReadAsSaid(h, c, offset, size, r, whole) ==
  LET trace == r.m.trace
      first == c * GRUB_DISK_SECTOR_SIZE
      index == grub_disk_cache_get_index(h.dev_id, h.id, c)
      last == Len(trace)
      bytes == Slice(device, first + offset, size)
  IN IF whole /\ ReadsBytes(h, trace, 1, first, ClusterBytes) /\ trace[1].ok
     THEN /\ last = 1
          /\ r.err = GRUB_ERR_NONE /\ r.buf = bytes
          /\ KeyMatch(r.m.cache[index], h.dev_id, h.id, c)
          /\ r.m.cache[index].data = Slice(device, first, ClusterBytes)
     ELSE /\ whole => ReadsBytes(h, trace, 1, first, ClusterBytes)
          /\ last = IF whole THEN 2 ELSE 1
          /\ ReadsBytes(h, trace, last, first + offset, size)
          /\ r.m.cache[index].data = grub_disk_cache_table[index].data
          /\ ~(KeyMatch(r.m.cache[index], h.dev_id, h.id, c)
                /\ r.m.cache[index].data # NoData)
          /\ IF trace[last].ok
             THEN /\ r.err = GRUB_ERR_NONE /\ r.m.errno = GRUB_ERR_NONE
                  /\ r.buf = bytes
             ELSE r.err = GRUB_ERR_READ_ERROR

C15_SmallReadFallback ==
  Callable =>
    \A c \in ClusterStarts, offset \in 0..(ClusterBytes - 1),
       size \in 1..ClusterBytes, p \in FallbackPlans :
      (offset + size <= ClusterBytes /\ Uncached(disk, c)) =>
        SmallReadAsSaid(disk, c, offset, size,
                        grub_disk_read_small(Machine, p, disk, c, offset, size),
                        FitsOnDisk(disk, c))

\* the same with the whole cluster read only when it ends before the last
\* logical sector of the disk
C15_SmallReadFallbackInner ==
  Callable =>
    \A c \in ClusterStarts, offset \in 0..(ClusterBytes - 1),
       size \in 1..ClusterBytes, p \in FallbackPlans :
      (offset + size <= ClusterBytes /\ Uncached(disk, c)) =>
        SmallReadAsSaid(disk, c, offset, size,
                        grub_disk_read_small(Machine, p, disk, c, offset, size),
                        EndsBeforeLast(disk, c))


(***************************************************************************)
(* C16.  grub_disk_cache_invalidate (dev_id, disk_id, sector) frees a slot *)
(* iff the slot is occupied, its key is (dev_id, disk_id, sector rounded   *)
(* down to a cluster boundary) and its lock is clear; a matching slot      *)
(* whose lock is set is left occupied with its data intact; every slot     *)
(* that does not match is unchanged.                                       *)
(***************************************************************************)
\* the tables the cache goes through: the table between two calls, and the
\* table between a grub_disk_cache_fetch of a cluster of the disk and the
\* grub_disk_cache_unlock that follows it
TablesInUse ==
  {grub_disk_cache_table}
    \cup {grub_disk_cache_fetch(grub_disk_cache_table, disk.dev_id, disk.id,
                                c).cache : c \in ClusterStarts}

\* slot i of table t is occupied with the cluster that holds sector
Matches(t, i, h, sector) ==
  /\ t[i].data # NoData
  /\ KeyMatch(t[i], h.dev_id, h.id,
              (sector \div GRUB_DISK_CACHE_SIZE) * GRUB_DISK_CACHE_SIZE)

\* slot i, occupied in t, is free in u
Freed(t, u, i) == t[i].data # NoData /\ u[i].data = NoData

InvalidateHonoursLock(t, h, sector) ==
  LET u == grub_disk_cache_invalidate(t, h.dev_id, h.id, sector)
  IN \A i \in DOMAIN t :
       /\ Freed(t, u, i) <=> (Matches(t, i, h, sector) /\ t[i].lock = 0)
       /\ (Matches(t, i, h, sector) /\ t[i].lock = 1) => u[i] = t[i]
       /\ ~Matches(t, i, h, sector) => u[i] = t[i]

InvalidateIgnoresLock(t, h, sector) ==
  LET u == grub_disk_cache_invalidate(t, h.dev_id, h.id, sector)
  IN \A i \in DOMAIN t :
       /\ Freed(t, u, i) <=> Matches(t, i, h, sector)
       /\ Matches(t, i, h, sector) =>
            u[i] = [t[i] EXCEPT !.data = NoData, !.lock = 0]
       /\ ~Matches(t, i, h, sector) => u[i] = t[i]

C16_InvalidateOneAnyLock ==
  disk # NoDisk =>
    \A t \in TablesInUse, sector \in 0..(DiskSectors - 1) :
      InvalidateIgnoresLock(t, disk, sector)

\* the claim on the tables found between two calls
C16_InvalidateOneBetweenCalls ==
  disk # NoDisk =>
    \A sector \in 0..(DiskSectors - 1) :
      InvalidateHonoursLock(grub_disk_cache_table, disk, sector)


(***************************************************************************)
(* C17.  At most one slot: in every reachable state, whatever fetches,     *)
(* stores, unlocks and invalidations led to it, no two occupied cache      *)
(* entries carry the same (dev_id, disk_id, sector) key, and every         *)
(* occupied entry has a cluster-aligned sector and sits at table index     *)
(* (dev_id * 524287 + disk_id * 2606459 + (sector >> GRUB_DISK_CACHE_BITS))*)
(* mod GRUB_DISK_CACHE_NUM.  The ids and sectors of the model are small    *)
(* enough for the sum to stay inside an unsigned long.                     *)
(***************************************************************************)
\* the slot the key of entry e belongs to
HomeSlot(e) ==
  (e.dev_id * 524287 + e.disk_id * 2606459
     + e.sector \div Pow2(GRUB_DISK_CACHE_BITS)) % GRUB_DISK_CACHE_NUM

C17_AtMostOneSlot ==
  \A i \in DOMAIN grub_disk_cache_table :
    Occupied(i) =>
      /\ grub_disk_cache_table[i].sector % GRUB_DISK_CACHE_SIZE = 0
      /\ i = HomeSlot(grub_disk_cache_table[i])
      /\ \A j \in DOMAIN grub_disk_cache_table :
           (/\ Occupied(j)
            /\ KeyMatch(grub_disk_cache_table[j],
                        grub_disk_cache_table[i].dev_id,
                        grub_disk_cache_table[i].disk_id,
                        grub_disk_cache_table[i].sector)) => j = i

\* every slot is occupied, one of them by a cluster that shares its slot
\* with an earlier cluster of the disk
C17_Witness ==
  /\ \A i \in DOMAIN grub_disk_cache_table : Occupied(i)
  /\ \E i \in DOMAIN grub_disk_cache_table :
       grub_disk_cache_table[i].sector
         >= GRUB_DISK_CACHE_NUM * GRUB_DISK_CACHE_SIZE


(***************************************************************************)
(* C18.  The partition detach is always undone: on every return path of    *)
(* grub_disk_write (success, range error, failure of the inner read in the *)
(* read-modify-write path, failure of a driver write) the partition chain  *)
(* of the handle is what it was when grub_disk_write was called.           *)
(***************************************************************************)
\* w is what grub_disk_write gave on handle h
ChainKept(h, w) == w.partition = h.partition

\* the calls of the log that went to the driver's read
DriverReads(trace) ==
  {k \in 1..Len(trace) : trace[k].op = "read"}

C18_PartitionRestored ==
  Callable =>
    \A h \in OpenHandles, sector \in 0..MaxWSector, offset \in Offsets,
       size \in WriteSizes, p \in WritePlans :
      ChainKept(h, grub_disk_write(Machine, p, h, sector, offset, size,
                                   WriteBuf(size)))

\* a write has changed the medium, and from here a write through the nested
\* partition whose inner read fails at the driver comes back with the read
\* error and the chain of two partitions in place
C18_Witness ==
  /\ Callable
  /\ device # FreshDevice
  /\ LET h == [disk EXCEPT !.partition = <<Inner, Outer>>]
         w == grub_disk_write(Machine, [NoFail EXCEPT !.rd = {1, 2}], h, 0,
                              1, 1, WriteBuf(1))
     IN /\ w.ret = GRUB_ERR_READ_ERROR
        /\ DriverReads(w.m.trace) # {}
        /\ w.partition = <<Inner, Outer>>


(***************************************************************************)
(* C19.  A failed open changes no global state: when grub_disk_open fails  *)
(* (no driver accepts the name, a driver reports another error, the sector *)
(* size is unsupported, the partition probe finds nothing) the cache table *)
(* and grub_last_time are after the call what they were before it.         *)
(***************************************************************************)
\* a step in which grub_disk_open returns 0
OpenFailed ==
  /\ disk = NoDisk /\ disk' = NoDisk
  /\ grub_errno = GRUB_ERR_NONE /\ grub_errno' # GRUB_ERR_NONE

C19_FailedOpenNoEffect ==
  [][OpenFailed =>
       /\ grub_disk_cache_table' = grub_disk_cache_table
       /\ grub_last_time' = grub_last_time]_vars

\* the part that holds: the cache table is left alone
C19_FailedOpenKeepsCache ==
  [][OpenFailed => grub_disk_cache_table' = grub_disk_cache_table]_vars


(***************************************************************************)
(* C20.  Locks are released on every exit path: whenever a driver read or  *)
(* write is called, the read hook is called, or grub_disk_open,            *)
(* grub_disk_close, grub_disk_read or grub_disk_write returns, no occupied *)
(* cache entry has its lock set; so grub_disk_cache_invalidate_all between *)
(* two of these operations leaves no occupied entry.                       *)
(***************************************************************************)
\* no occupied slot of table t is locked
NoLockHeld(t) ==
  \A i \in DOMAIN t : t[i].data # NoData => t[i].lock = 0

\* the call that led to m found no lock held at any call it made out of
\* the disk layer, and left none
LocksReleased(m) ==
  /\ \A k \in 1..Len(m.seen) : NoLockHeld(m.seen[k].cache)
  /\ NoLockHeld(m.cache)

\* reads with every failure the environment can produce in them
LockPlans ==
  ReadPlans \cup WritePlans
    \cup {[NoFail EXCEPT !.rd = {2}], [NoFail EXCEPT !.mm = {3}]}

\* names grub_disk_open is called with while the disk is open: served,
\* with a partition, failing hard, with no such partition
LockNames ==
  {<<"a">>, <<"a", ",", "a">>, <<"a", "a">>, <<"a", ",", ",">>}

\* the times of these calls: at once, and after the cache timeout
LockTimes == {now, now + GRUB_CACHE_TIMEOUT * 1000 + 1}

C20_LocksReleased ==
  /\ NoLockHeld(grub_disk_cache_table)
  /\ \A i \in DOMAIN grub_disk_cache_table :
       grub_disk_cache_invalidate_all(grub_disk_cache_table)[i].data = NoData
  /\ Callable =>
       /\ \A q \in [h : OpenHandles, sector : Sectors, offset : Offsets,
                    size : ReadSizes, p : LockPlans] :
            LocksReleased(grub_disk_read(Machine, q.p, q.h, q.sector,
                                         q.offset, q.size).m)
       /\ \A q \in [h : OpenHandles, sector : 0..MaxWSector, offset : Offsets,
                    size : WriteSizes, p : LockPlans] :
            LocksReleased(grub_disk_write(Machine, q.p, q.h, q.sector,
                                          q.offset, q.size,
                                          WriteBuf(q.size)).m)
       /\ \A name \in LockNames, t \in LockTimes, p \in OpenPlans :
            NoLockHeld(grub_disk_open(Globals, p, grub_disk_dev_list, t,
                                      name).g.m.cache)
       /\ NoLockHeld(grub_disk_close(Globals, disk, now).m.cache)

\* two clusters are cached, and a read through the partition whose user
\* installed a hook is served from both without a driver read: each was
\* locked by its fetch, and the hook then runs
C20_Witness ==
  /\ Callable
  /\ LET h == [disk EXCEPT !.partition = <<Outer>>, !.read_hook = TRUE]
         r == grub_disk_read(Machine, NoFail, h, 0, 0, ClusterBytes)
     IN /\ r.ret = GRUB_ERR_NONE
        /\ r.m.trace = <<>>
        /\ r.m.hooks # <<>>
        /\ \E k \in 1..Len(r.m.seen) :
             \A i \in DOMAIN r.m.seen[k].cache :
               r.m.seen[k].cache[i].data # NoData

====
